---- MODULE Spec2Model ----
(***************************************************************************)
(* Enrich -> batch-persist pipeline of the raw collectors                  *)
(* (sportingbetraw.py, superbetraw.py, betmgmraw.py).                      *)
(*                                                                         *)
(* A listing is identified by its position in the input list; its         *)
(* provider-native id is a small integer, 0 standing for "no id" (the     *)
(* value for which `str(fx.get("id") or ... or "")` is the empty string). *)
(* Times are counted in tenths of a second.                                *)
(***************************************************************************)
EXTENDS Integers, Sequences, FiniteSets, TLC

\* ---------------------------------------------------------------- bounds
MaxListings == 3

\* ------------------------------------------------------ program constants
MAX_WORKERS_CAP == 12
RETRIES == 3
BACKOFF_UNIT == 5

\* The native ids a listing can carry; the enrichers only test the id for
\* emptiness, so one non-empty value (which may repeat in a list) is enough.
NativeIds == {0, 1}

RequestedWorkers == {-1, 0, 1, 2, 13}
FlushSizes == {0, 1, 2}

Streaming == {"sportingbet", "superbet"}
Providers == Streaming \cup {"betmgm"}

Max(a, b) == IF a >= b THEN a ELSE b
Min(a, b) == IF a <= b THEN a ELSE b

\* ---------------------------------------------------------------- state
VARIABLES
    provider,     \* which collector runs
    fixtures,     \* the input list: sequence of native ids, 0 = no id
    max_workers,  \* the requested worker limit (args.max_workers)
    flush_size,   \* args.flush_size
    workers,      \* the local max_workers of the enricher after clamping
    path,         \* "none" | "sequential" | "pooled"
    epc,          \* position of the enricher
    idx,          \* 1-based position of the listing loop
    task,         \* per listing: state of its detail fetch / future
    consumed,     \* listings whose fetch result the enricher has taken
    yielded,      \* records handed to the consumer, in order
    raw,          \* listings that carry fx["raw"]
    buffer,       \* main(): buffer
    flushes,      \* main(): the batches passed to save_raw, in order
    mpc,          \* position of main(): "loop" | "finished" | "crashed"
    fetch_call,   \* one call of a retry-wrapped fetcher, step by step
    events,       \* save_raw: the list of records handed to the call
    raw_coll,     \* the raw Mongo collection: a set of documents
    clock,        \* datetime.utcnow() / datetime.now(tz=UTC)
    saves,        \* the save_raw calls made so far, in order
    norm_coll,    \* the normalized Mongo collection: a set of documents
    calls,        \* the upsert_normalized calls made so far, in order
    mdoc,         \* merge_normalized: the document merged so far (existing)
    mlog,         \* merge_normalized: how many merges were made, and the last one
    arg,          \* reducers, validity filter, dedupe: the argument of the call
    ret           \* ... and what the call has computed so far

\* the enricher and main, without provider
coreVars == <<fixtures, max_workers, flush_size, workers, path, epc, idx,
              task, consumed, yielded, raw, buffer, flushes, mpc, fetch_call>>

\* raw persistence
storeVars == <<events, raw_coll, saves>>

\* normalized documents
normVars == <<norm_coll, calls, mdoc, mlog>>

\* one call of a reducer, of the validity filter or of a dedupe
pureVars == <<arg, ret>>

extVars == <<storeVars, clock, normVars, pureVars>>

vars == <<provider, coreVars, extVars>>

N == Len(fixtures)
HasId(i) == fixtures[i] # 0

\* ------------------------------------------------- retry-wrapped fetchers
\* What one HTTP attempt can come back with.
AttemptOutcomes(p) ==
    IF p = "superbet"
    THEN {"transport_error", "status_non200", "body_unparseable",
          "payload_not_mapping", "detail_missing", "data_not_list", "ok"}
    ELSE IF p = "sportingbet"
    THEN {"transport_error", "status_non200", "body_unparseable",
          "payload_not_mapping", "detail_missing", "ok"}
    ELSE {"transport_error", "status_non200", "body_unparseable", "ok"}

\* sportingbet, body of one iteration of the retry loop:
\* every fault is logged and retried (RequestException covers the JSON
\* decode error of resp.json(); a non-dict payload fails the isinstance test).
fetch_fixture_detail_attempt(o) ==
    IF o = "ok" THEN "return" ELSE "retry"

\* superbet, body of one iteration: payload.get on a non-mapping payload and
\* data[0] on a non-list 'data' raise AttributeError / KeyError / TypeError,
\* which `except requests.RequestException` does not catch.
fetch_full_event_attempt(o) ==
    IF o = "ok" THEN "return"
    ELSE IF o \in {"payload_not_mapping", "data_not_list"} THEN "raise"
    ELSE "retry"

AttemptStep(p, o) ==
    IF p = "superbet" THEN fetch_full_event_attempt(o)
    ELSE fetch_fixture_detail_attempt(o)

\* time.sleep(0.5 * attempt)
BackoffWaitConstant(attempt) == BACKOFF_UNIT

BackoffWait(attempt) == BACKOFF_UNIT * attempt

\* `if attempt < retries:` in front of the sleep
SleepsAfter(attempt) == attempt < RETRIES

\* range(1, retries + 1)
HasNextAttempt(attempt) == attempt + 1 <= RETRIES

RECURSIVE retry_loop(_, _, _)
retry_loop(p, outs, attempt) ==
    LET step == AttemptStep(p, outs[attempt]) IN
    IF step = "return" THEN "detail"
    ELSE IF step = "raise" THEN "raised"
    ELSE IF HasNextAttempt(attempt) THEN retry_loop(p, outs, attempt + 1)
    ELSE "None"

\* betmgm: one attempt, no retry; a transport error propagates, a non-200
\* status and an invalid JSON body return None.
fetch_event_detail(o) ==
    IF o = "ok" THEN "detail"
    ELSE IF o = "transport_error" THEN "raised"
    ELSE "None"

\* The results a whole fetch call can have: "detail" | "None" | "raised".
FetchResults(p) ==
    IF p = "betmgm"
    THEN {fetch_event_detail(o) : o \in AttemptOutcomes(p)}
    ELSE {retry_loop(p, outs, 1) : outs \in [1..RETRIES -> AttemptOutcomes(p)]}

\* --------------------------------------------------------------- enricher
\* sportingbet: max(1, min(max_workers, MAX_WORKERS_CAP))
\* superbet:    if max_workers < 1: max_workers = 1; min(max_workers, CAP)
EffectiveWorkersWrongFloor(p, mw) ==
    IF p = "sportingbet" THEN Max(2, Min(mw, MAX_WORKERS_CAP))
    ELSE Min(IF mw < 2 THEN 2 ELSE mw, MAX_WORKERS_CAP)

EffectiveWorkers(p, mw) ==
    IF p = "sportingbet" THEN Max(1, Min(mw, MAX_WORKERS_CAP))
    ELSE Min(IF mw < 1 THEN 1 ELSE mw, MAX_WORKERS_CAP)

\* `if max_workers == 1:`
UseSequentialPathNever(w) == FALSE

UseSequentialPath(w) == w = 1

InFlight == Cardinality({i \in 1..N : task[i] = "running"})
Finished(i) == task[i] \in {"detail", "None", "raised"}
InYielded(i) == \E k \in 1..Len(yielded) : yielded[k] = i
Occurrences(s, i) == Cardinality({k \in 1..Len(s) : s[k] = i})

\* ------------------------------------------------------------ main loop
\* `len(buffer) >= max(1, args.flush_size)`
FlushDueStrict(len, fs) == len > Max(1, fs)

FlushDue(len, fs) == len >= Max(1, fs)

\* save_raw / save_raw_events issue a bulk_write only when at least one
\* record of the batch gave an operation; only then can the write fail.
\* sportingbet builds an operation only for a record that carries a detail
\* (one that is_valid_fixture accepts); enriched is the set of listings that
\* carry "raw" when the batch is saved.
HasOperations(batch, enriched) ==
    \E k \in 1..Len(batch) :
       /\ HasId(batch[k])
       /\ provider = "sportingbet" => batch[k] \in enriched

StorageOutcomes(batch, enriched) ==
    IF HasOperations(batch, enriched) THEN BOOLEAN ELSE {TRUE}

\* body of `for fx in enrich_...(...)`: append, flush when due.  A failing
\* bulk_write raises out of save_raw and out of main (nothing catches it).
MainBody(i, ok) ==
    LET b2 == Append(buffer, i) IN
    IF FlushDue(Len(b2), flush_size)
    THEN /\ flushes' = Append(flushes, b2)
         /\ IF ok THEN buffer' = <<>> /\ mpc' = mpc
                  ELSE buffer' = b2 /\ mpc' = "crashed"
    ELSE /\ buffer' = b2
         /\ flushes' = flushes
         /\ mpc' = mpc

\* `yield fx`: the consumer's loop body runs before the generator resumes.
Yield(i, enriched) ==
    /\ yielded' = Append(yielded, i)
    /\ \E ok \in StorageOutcomes(Append(buffer, i), enriched) : MainBody(i, ok)

IdleCall == [provider |-> "none", pc |-> "idle", attempt |-> 0,
             hist |-> <<>>, waits |-> <<>>, result |-> "none"]

\* Nothing persisted, no merge made.
ExtIdle ==
    /\ events = <<>>
    /\ raw_coll = {}
    /\ clock = 0
    /\ saves = <<>>
    /\ norm_coll = {}
    /\ calls = <<>>
    /\ mdoc = <<>>
    /\ mlog = <<>>
    /\ arg = <<>>
    /\ ret = <<>>

ListingLists == UNION {[1..n -> NativeIds] : n \in 0..MaxListings}

Init ==
    /\ provider \in Providers
    /\ fixtures \in ListingLists
    /\ max_workers \in RequestedWorkers
    /\ flush_size \in FlushSizes
    /\ workers = max_workers
    /\ path = "none"
    /\ epc = "start"
    /\ idx = 1
    /\ task = [i \in 1..Len(fixtures) |-> "none"]
    /\ consumed = {}
    /\ yielded = <<>>
    /\ raw = {}
    /\ buffer = <<>>
    /\ flushes = <<>>
    /\ mpc = "loop"
    /\ fetch_call = IdleCall
    /\ ExtIdle

\* ------------------------------------------------ enricher: entry and paths
\* enrich_fixtures / enrich_events_with_markets up to the choice of path.
\* sportingbet returns at once on an empty list, before clamping.
StartStreaming ==
    /\ provider \in Streaming
    /\ epc = "start"
    /\ IF provider = "sportingbet" /\ N = 0
       THEN /\ epc' = "done"
            /\ UNCHANGED <<workers, path>>
       ELSE /\ workers' = EffectiveWorkers(provider, max_workers)
            /\ path' = IF UseSequentialPath(workers') THEN "sequential" ELSE "pooled"
            /\ epc' = IF UseSequentialPath(workers') THEN "seq" ELSE "submit"
    /\ UNCHANGED <<provider, fixtures, max_workers, flush_size, idx, task,
                   consumed, yielded, raw, buffer, flushes, mpc, fetch_call>>
    /\ UNCHANGED extVars

\* betmgm enrich_events: ThreadPoolExecutor(max_workers=max_workers) with the
\* requested value as it is; the constructor raises ValueError below 1.
StartBetmgm ==
    /\ provider = "betmgm"
    /\ epc = "start"
    /\ IF max_workers < 1
       THEN /\ epc' = "raised"
            /\ mpc' = "crashed"
            /\ UNCHANGED <<workers, path>>
       ELSE /\ workers' = max_workers
            /\ path' = "pooled"
            /\ epc' = "submit"
            /\ mpc' = mpc
    /\ UNCHANGED <<provider, fixtures, max_workers, flush_size, idx, task,
                   consumed, yielded, raw, buffer, flushes, fetch_call>>
    /\ UNCHANGED extVars

\* ---- sequential path (max_workers == 1)
\* A listing without id: detail = None, `yield fx`.
SeqYieldNoId ==
    /\ epc = "seq"
    /\ idx <= N
    /\ ~HasId(idx)
    /\ Yield(idx, raw)
    /\ idx' = idx + 1
    /\ epc' = IF mpc' = "crashed" THEN "closed" ELSE "seq"
    /\ UNCHANGED <<provider, fixtures, max_workers, flush_size, workers, path,
                   task, consumed, raw, fetch_call>>
    /\ UNCHANGED extVars

\* The generator thread enters the fetcher for the listing at idx.
SeqFetchStart ==
    /\ epc = "seq"
    /\ idx <= N
    /\ HasId(idx)
    /\ task[idx] = "none"
    /\ task' = [task EXCEPT ![idx] = "running"]
    /\ UNCHANGED <<provider, fixtures, max_workers, flush_size, workers, path,
                   epc, idx, consumed, yielded, raw, buffer, flushes, mpc,
                   fetch_call>>
    /\ UNCHANGED extVars

\* The fetcher comes back: attach raw on a detail, yield the listing.  An
\* exception of the fetcher leaves the generator and main().
SeqFetchEnd ==
    /\ epc = "seq"
    /\ idx <= N
    /\ task[idx] = "running"
    /\ \E r \in FetchResults(provider) :
         /\ task' = [task EXCEPT ![idx] = r]
         /\ IF r = "raised"
            THEN /\ epc' = "raised"
                 /\ mpc' = "crashed"
                 /\ UNCHANGED <<idx, consumed, yielded, raw, buffer, flushes>>
            ELSE /\ consumed' = consumed \cup {idx}
                 /\ raw' = IF r = "detail" THEN raw \cup {idx} ELSE raw
                 /\ Yield(idx, raw')
                 /\ idx' = idx + 1
                 /\ epc' = IF mpc' = "crashed" THEN "closed" ELSE "seq"
    /\ UNCHANGED <<provider, fixtures, max_workers, flush_size, workers, path,
                   fetch_call>>
    /\ UNCHANGED extVars

\* End of the `for` loop: `return`.
SeqReturn ==
    /\ epc = "seq"
    /\ idx > N
    /\ epc' = "done"
    /\ UNCHANGED <<provider, fixtures, max_workers, flush_size, workers, path,
                   idx, task, consumed, yielded, raw, buffer, flushes, mpc,
                   fetch_call>>
    /\ UNCHANGED extVars

\* ---- pooled path
\* One iteration of the submission loop.
\*   sportingbet: no id -> `continue`;  superbet: no id -> `yield event`;
\*   betmgm: every event is submitted (its id is str(...) of whatever is there).
SubmitNoIdYields(p) == p = "superbet"

SubmitStep ==
    /\ epc = "submit"
    /\ idx <= N
    /\ IF HasId(idx) \/ provider = "betmgm"
       THEN /\ task' = [task EXCEPT ![idx] = "queued"]
            /\ epc' = epc
            /\ UNCHANGED <<yielded, buffer, flushes, mpc>>
       ELSE IF SubmitNoIdYields(provider)
       THEN /\ Yield(idx, raw)
            /\ epc' = IF mpc' = "crashed" THEN "closing" ELSE "submit"
            /\ task' = task
       ELSE /\ epc' = epc
            /\ UNCHANGED <<task, yielded, buffer, flushes, mpc>>
    /\ idx' = idx + 1
    /\ UNCHANGED <<provider, fixtures, max_workers, flush_size, workers, path,
                   consumed, raw, fetch_call>>
    /\ UNCHANGED extVars

\* All listings seen: go on to as_completed(...).
SubmitDone ==
    /\ epc = "submit"
    /\ idx > N
    /\ epc' = "collect"
    /\ UNCHANGED <<provider, fixtures, max_workers, flush_size, workers, path,
                   idx, task, consumed, yielded, raw, buffer, flushes, mpc,
                   fetch_call>>
    /\ UNCHANGED extVars

\* ThreadPoolExecutor: a free worker thread takes the oldest queued task.
PoolStart(i) ==
    /\ path = "pooled"
    /\ task[i] = "queued"
    /\ \A j \in 1..(i - 1) : task[j] # "queued"
    /\ InFlight < workers
    /\ task' = [task EXCEPT ![i] = "running"]
    /\ UNCHANGED <<provider, fixtures, max_workers, flush_size, workers, path,
                   epc, idx, consumed, yielded, raw, buffer, flushes, mpc,
                   fetch_call>>
    /\ UNCHANGED extVars

\* A worker's fetch call ends; its result or exception is kept in the future.
PoolFinish(i) ==
    /\ path = "pooled"
    /\ task[i] = "running"
    /\ \E r \in FetchResults(provider) : task' = [task EXCEPT ![i] = r]
    /\ UNCHANGED <<provider, fixtures, max_workers, flush_size, workers, path,
                   epc, idx, consumed, yielded, raw, buffer, flushes, mpc,
                   fetch_call>>
    /\ UNCHANGED extVars

\* try: detail = future.result()  except Exception: detail = None
future_result_uncaught(st) == st

future_result(st) == IF st = "raised" THEN "None" ELSE st

\* One iteration of `for future in as_completed(...)` of the two generators.
Collect(i) ==
    /\ provider \in Streaming
    /\ epc = "collect"
    /\ i \notin consumed
    /\ Finished(i)
    /\ LET detail == future_result(task[i]) IN
         IF detail = "raised"
         THEN /\ epc' = "raised"
              /\ mpc' = "crashed"
              /\ UNCHANGED <<consumed, yielded, raw, buffer, flushes>>
         ELSE /\ consumed' = consumed \cup {i}
              /\ raw' = IF detail = "detail" THEN raw \cup {i} ELSE raw
              /\ Yield(i, raw')
              /\ epc' = IF mpc' = "crashed" THEN "closing" ELSE "collect"
    /\ UNCHANGED <<provider, fixtures, max_workers, flush_size, workers, path,
                   idx, task, fetch_call>>
    /\ UNCHANGED extVars

\* betmgm: `if detail: evt["raw"] = detail; enriched.append(evt)`
BetmgmCollect(i) ==
    /\ provider = "betmgm"
    /\ epc = "collect"
    /\ i \notin consumed
    /\ Finished(i)
    /\ consumed' = consumed \cup {i}
    /\ IF future_result(task[i]) = "detail"
       THEN /\ raw' = raw \cup {i}
            /\ yielded' = Append(yielded, i)
       ELSE UNCHANGED <<raw, yielded>>
    /\ UNCHANGED <<provider, fixtures, max_workers, flush_size, workers, path,
                   epc, idx, task, buffer, flushes, mpc, fetch_call>>
    /\ UNCHANGED extVars

\* Executor.__exit__ is shutdown(wait=True): the workers run every work item
\* still in the queue and are joined.
pool_drained_nowait(t) == TRUE

pool_drained(t) == \A i \in DOMAIN t : t[i] \notin {"queued", "running"}

\* The consumer stopped at a `yield` inside `with ThreadPoolExecutor(...)`:
\* closing the generator raises GeneratorExit there, the with block is left
\* through the executor's __exit__, and close() returns after it.
PoolShutdown ==
    /\ epc = "closing"
    /\ pool_drained(task)
    /\ epc' = "closed"
    /\ UNCHANGED <<provider, fixtures, max_workers, flush_size, workers, path,
                   idx, task, consumed, yielded, raw, buffer, flushes, mpc,
                   fetch_call>>
    /\ UNCHANGED extVars

\* as_completed is exhausted once every submitted future has been taken.
CollectDone ==
    /\ epc = "collect"
    /\ \A i \in 1..N : task[i] # "none" => i \in consumed
    /\ epc' = "done"
    /\ UNCHANGED <<provider, fixtures, max_workers, flush_size, workers, path,
                   idx, task, consumed, yielded, raw, buffer, flushes, mpc,
                   fetch_call>>
    /\ UNCHANGED extVars

\* ---- main() after the enricher
\* sportingbet / superbet: `if buffer: save_raw(buffer, ...)`.
\* betmgm: save_raw(enriched, args), which returns at once on an empty list.
MainEnd ==
    /\ epc = "done"
    /\ mpc = "loop"
    /\ LET batch == IF provider = "betmgm" THEN yielded ELSE buffer IN
         IF batch # <<>>
         THEN /\ flushes' = Append(flushes, batch)
              /\ \E ok \in StorageOutcomes(batch, raw) :
                   mpc' = IF ok THEN "finished" ELSE "crashed"
         ELSE /\ flushes' = flushes
              /\ mpc' = "finished"
    /\ buffer' = buffer
    /\ UNCHANGED <<provider, fixtures, max_workers, flush_size, workers, path,
                   epc, idx, task, consumed, yielded, raw, fetch_call>>
    /\ UNCHANGED extVars

Next ==
    \/ StartStreaming
    \/ StartBetmgm
    \/ SeqYieldNoId
    \/ SeqFetchStart
    \/ SeqFetchEnd
    \/ SeqReturn
    \/ SubmitStep
    \/ SubmitDone
    \/ \E i \in 1..N : PoolStart(i)
    \/ \E i \in 1..N : PoolFinish(i)
    \/ \E i \in 1..N : Collect(i)
    \/ \E i \in 1..N : BetmgmCollect(i)
    \/ CollectDone
    \/ PoolShutdown
    \/ MainEnd

Spec == Init /\ [][Next]_vars

\* --------------------------------- one fetcher call, attempt by attempt
FetchInit ==
    /\ provider \in Streaming
    /\ fixtures = <<>>
    /\ max_workers = 1
    /\ flush_size = 1
    /\ workers = 1
    /\ path = "none"
    /\ epc = "idle"
    /\ idx = 1
    /\ task = <<>>
    /\ consumed = {}
    /\ yielded = <<>>
    /\ raw = {}
    /\ buffer = <<>>
    /\ flushes = <<>>
    /\ mpc = "idle"
    /\ fetch_call = [provider |-> provider, pc |-> "try", attempt |-> 1,
                     hist |-> <<>>, waits |-> <<>>, result |-> "none"]
    /\ ExtIdle

\* After a failed attempt that is not followed by a sleep, and after a sleep:
\* the next iteration of the loop, or `return None` when the range is used up.
AfterAttempt(c) ==
    IF HasNextAttempt(c.attempt)
    THEN [c EXCEPT !.attempt = @ + 1, !.pc = "try"]
    ELSE [c EXCEPT !.pc = "returned", !.result = "None"]

\* One iteration of the retry loop up to the sleep.
FetchAttempt(o) ==
    /\ fetch_call.pc = "try"
    /\ LET c == [fetch_call EXCEPT !.hist = Append(@, o)]
           step == AttemptStep(c.provider, o) IN
         fetch_call' =
           IF step = "return" THEN [c EXCEPT !.pc = "returned", !.result = "detail"]
           ELSE IF step = "raise" THEN [c EXCEPT !.pc = "raised", !.result = "raised"]
           ELSE IF SleepsAfter(c.attempt) THEN [c EXCEPT !.pc = "sleep"]
           ELSE AfterAttempt(c)
    /\ UNCHANGED <<provider, fixtures, max_workers, flush_size, workers, path,
                   epc, idx, task, consumed, yielded, raw, buffer, flushes, mpc>>
    /\ UNCHANGED extVars

\* time.sleep(0.5 * attempt)
FetchBackoff ==
    /\ fetch_call.pc = "sleep"
    /\ fetch_call' = AfterAttempt([fetch_call EXCEPT
                                     !.waits = Append(@, BackoffWait(fetch_call.attempt))])
    /\ UNCHANGED <<provider, fixtures, max_workers, flush_size, workers, path,
                   epc, idx, task, consumed, yielded, raw, buffer, flushes, mpc>>
    /\ UNCHANGED extVars

FetchNext ==
    \/ \E o \in AttemptOutcomes(fetch_call.provider) : FetchAttempt(o)
    \/ FetchBackoff

SpecFetch == FetchInit /\ [][FetchNext]_vars

\* ================================================================ claims
AllOnce(s) == Len(s) = N /\ \A i \in 1..N : Occurrences(s, i) = 1

\* C1: enrich_fixtures (sportingbet) yields exactly N records, each input
\* fixture exactly once, for every worker limit.
C1_SportingbetConservation ==
    (provider = "sportingbet" /\ epc = "done") => AllOnce(yielded)

\* C2: enrich_events_with_markets (superbet) yields exactly N records, each
\* input event exactly once, whatever the fetches come back with; the
\* generator has ended when it returned or when an exception left it.
C2_SuperbetConservation ==
    (provider = "superbet" /\ epc \in {"done", "raised"}) => AllOnce(yielded)

\* C3: a listing without id never has a fetch started for it and never gets
\* raw attached, and once the generator has returned it has been yielded.
C3_MissingIdYieldedUnenriched ==
    provider \in Streaming =>
      \A i \in 1..N : ~HasId(i) =>
        /\ task[i] = "none"
        /\ i \notin raw
        /\ (epc = "done" => InYielded(i))

C5_BetmgmReturnsAll ==
    (provider = "betmgm" /\ epc = "done") => Len(yielded) = N

\* C6: the number of detail fetches in flight never exceeds
\* min(max(1, max_workers), 12), and the pool is built with that size.
ClaimedLimit == Min(Max(1, max_workers), 12)

C6_InFlightBounded ==
    provider \in Streaming =>
      /\ InFlight <= ClaimedLimit
      /\ (path # "none" => workers = ClaimedLimit)

C6_Witness ==
    /\ provider \in Streaming
    /\ max_workers = 2
    /\ InFlight = 2
    /\ \E i \in 1..N : task[i] = "queued"

\* C7: with an effective worker limit of 1 at most one fetch is in flight,
\* a fetch starts only after every earlier listing has been yielded, and the
\* records are yielded in listing order.
C7_SequentialWhenOneWorker ==
    (provider \in Streaming /\ path # "none" /\ workers = 1) =>
      /\ InFlight <= 1
      /\ \A i \in 1..N : task[i] # "none" => \A j \in 1..(i - 1) : InYielded(j)
      /\ \A k \in 1..Len(yielded) : yielded[k] = k

C7_Witness ==
    /\ provider \in Streaming
    /\ workers = 1
    /\ N >= 2
    /\ yielded = <<1>>
    /\ task[2] = "running"

\* C8: against a transport that always fails the fetcher makes exactly 3
\* attempts and returns None, having slept 0.5 and then 1.0 (5 and 10
\* tenths) between them and not after the last one.
AllFailing(h) ==
    \A k \in 1..Len(h) : h[k] \in {"transport_error", "status_non200"}

C8_ThreeAttemptsTwoWaits ==
    (fetch_call.pc # "idle" /\ AllFailing(fetch_call.hist)) =>
      /\ fetch_call.pc # "raised"
      /\ Len(fetch_call.hist) <= 3
      /\ fetch_call.pc = "returned" =>
           /\ Len(fetch_call.hist) = 3
           /\ fetch_call.result = "None"
           /\ fetch_call.waits = <<5, 10>>

C8_Witness ==
    /\ fetch_call.pc = "returned"
    /\ Len(fetch_call.hist) = 3
    /\ AllFailing(fetch_call.hist)
    /\ fetch_call.hist[1] # fetch_call.hist[2]

\* C9: a call of a retry-wrapped fetcher never ends with an exception.
C9_FetcherNeverRaises == fetch_call.pc # "raised"

\* C10: every flush but a final one holds exactly F = max(1, flush_size)
\* records and no flush holds more; while main is in its loop the buffer is
\* below F; the flushes, in order, are the yielded records in order, each in
\* at most one flush; a record that is in no flush is still in the buffer of
\* a main that has not returned; after main returned every yielded record
\* has been in exactly one flush.
RECURSIVE Flat(_)
Flat(ss) == IF ss = <<>> THEN <<>> ELSE Head(ss) \o Flat(Tail(ss))

IsPrefix(a, b) == Len(a) <= Len(b) /\ SubSeq(b, 1, Len(a)) = a

C10_Batching ==
    provider \in Streaming =>
      LET F == Max(1, flush_size)
          flushed == Flat(flushes) IN
      /\ \A k \in 1..Len(flushes) : Len(flushes[k]) >= 1 /\ Len(flushes[k]) <= F
      /\ \A k \in 1..(Len(flushes) - 1) : Len(flushes[k]) = F
      /\ (mpc = "loop" =>
            /\ Len(buffer) < F
            /\ \A k \in 1..Len(flushes) : Len(flushes[k]) = F
            /\ flushed \o buffer = yielded)
      /\ IsPrefix(flushed, yielded)
      /\ \A i \in 1..N :
           /\ Occurrences(flushed, i) <= 1
           /\ (InYielded(i) /\ Occurrences(flushed, i) = 0) =>
                (mpc # "finished" /\ Occurrences(buffer, i) = 1)
      /\ (mpc = "finished" => flushed = yielded)

C10_Witness ==
    /\ provider \in Streaming
    /\ mpc = "finished"
    /\ flush_size = 2
    /\ Len(flushes) = 2
    /\ Len(flushes[1]) = 2
    /\ Len(flushes[2]) = 1

\* ================================ reducer and validity filter (sportingbet)
SPORT_ID == 4

TEAM_PARTICIPANT_TYPES == {"HomeTeam", "AwayTeam", "Team", "Competitor"}
BASE_ALLOWED_MARKET_TYPES ==
    {"3way", "BTTS", "DoubleChance", "DrawNoBet", "Handicap", "2wayHandicap",
     "ThreeWayAndBTTS", "ToWinAndBTTS", "ThreeWayAndOverUnder",
     "DoubleChanceAndOverUnder"}
PROMO_MARKET_SUBTYPES == {"Build a Bet - Price Boost", "BigOdd", "2Up3wayPricing"}

\* An option market, by what the reducer reads of it:
\*   mtype, period, subtype   parameters MarketType, Period, MarketSubType,
\*                            "" when the parameter is missing
\*   happening                parameter Happening, "None" when missing
\*   range                    whether parameter RangeValue is truthy
\*   boost                    whether the JSON text of some option holds "boost"
\*   blob                     what the slim form leaves out
Market(id, mtype, period, happening, range, subtype, boost) ==
    [id |-> id, mtype |-> mtype, period |-> period, happening |-> happening,
     range |-> range, subtype |-> subtype, boost |-> boost, blob |-> "heavy"]

\* _has_boost: a boost text in an option, or a promotional subtype
has_boost(market) ==
    \/ market.boost
    \/ market.subtype \in PROMO_MARKET_SUBTYPES

\* _should_keep_market with the allow-set tested before the promo signals
should_keep_market_type_first(market) ==
    IF market.mtype \notin BASE_ALLOWED_MARKET_TYPES THEN FALSE
    ELSE IF has_boost(market) THEN TRUE
    ELSE IF market.period # "" /\ market.period # "RegularTime" THEN FALSE
    ELSE IF market.mtype \in {"3way", "Handicap", "2wayHandicap", "DoubleChance",
                              "DrawNoBet", "BTTS"}
            /\ market.happening \notin {"None", "Goal"} THEN FALSE
    ELSE IF market.mtype = "3way" /\ market.range THEN FALSE
    ELSE TRUE

should_keep_market(market) ==
    IF has_boost(market) THEN TRUE
    ELSE IF market.subtype \in PROMO_MARKET_SUBTYPES THEN TRUE
    ELSE IF market.mtype \notin BASE_ALLOWED_MARKET_TYPES THEN FALSE
    ELSE IF market.period # "" /\ market.period # "RegularTime" THEN FALSE
    ELSE IF market.mtype \in {"3way", "Handicap", "2wayHandicap", "DoubleChance",
                              "DrawNoBet", "BTTS"}
            /\ market.happening \notin {"None", "Goal"} THEN FALSE
    ELSE IF market.mtype = "3way" /\ market.range THEN FALSE
    ELSE TRUE

\* _slim_market: id, name, status, parameters and slim options
slim_market(market) ==
    [id |-> market.id, mtype |-> market.mtype, period |-> market.period,
     happening |-> market.happening, range |-> market.range,
     subtype |-> market.subtype, boost |-> market.boost]

SlimAll(markets) == [k \in 1..Len(markets) |-> slim_market(markets[k])]

\* filtered_markets: the kept markets, or all of them when none was kept
filtered_markets_no_fallback(option_markets) ==
    SlimAll(SelectSeq(option_markets, should_keep_market))

filtered_markets(option_markets) ==
    LET kept == SlimAll(SelectSeq(option_markets, should_keep_market)) IN
    IF kept = <<>> THEN SlimAll(option_markets) ELSE kept

\* (item.get("properties") or {}).get("type") in TEAM_PARTICIPANT_TYPES
is_team_participant(item) == item.ptype \in TEAM_PARTICIPANT_TYPES

\* A raw payload is a detail (a mapping whose "fixture" is a mapping) or a
\* mapping without "fixture" (the listing itself, when no detail was
\* attached); the latter is returned as it is.
prune_fixture_raw(payload) ==
    IF payload.kind # "detail" THEN payload
    ELSE [kind |-> "detail",
          fixture |->
            [sport |-> payload.fixture.sport,
             scoreboard |-> payload.fixture.scoreboard,
             competition |-> payload.fixture.competition,
             fixtureType |-> payload.fixture.fixtureType,
             participants |-> SelectSeq(payload.fixture.participants, is_team_participant),
             optionMarkets |-> filtered_markets(payload.fixture.optionMarkets)]]

\* the fixture block of a mapping without one: {}
NoFixture ==
    [sport |-> 0, scoreboard |-> 0, competition |-> "", fixtureType |-> "",
     participants |-> <<>>, optionMarkets |-> <<>>]

\* raw.get("fixture", {})
fixture_block(payload) ==
    IF payload.kind = "detail" THEN payload.fixture ELSE NoFixture

\* raw = fx.get("raw") or fx: without a detail the listing itself
ListingPayload == [kind |-> "listing"]

\* str.lower() on the values a fixtureType takes here
Lower(str) ==
    IF str = "PairGame" THEN "pairgame"
    ELSE IF str = "Tournament" THEN "tournament"
    ELSE str

\* "múltiplas" in name.lower() or "multipla" in name.lower()
NamesMultiples(name) == name \in {"Apostas Multiplas", "Multipla do Dia"}

\* sum(1 for _ in participants if isinstance(_, dict)) < 2
too_few_participants_one(count) == count < 1

too_few_participants(count) == count < 2

is_valid_fixture(fixture) ==
    LET sport_id == IF fixture.sport # 0 THEN fixture.sport ELSE fixture.scoreboard IN
    IF sport_id # 0 /\ sport_id # SPORT_ID THEN FALSE
    ELSE IF too_few_participants(Len(fixture.participants)) THEN FALSE
    ELSE IF fixture.optionMarkets = <<>> THEN FALSE
    ELSE IF NamesMultiples(fixture.competition) THEN FALSE
    ELSE IF Lower(fixture.fixtureType) # "" /\ Lower(fixture.fixtureType) # "pairgame"
         THEN FALSE
    ELSE TRUE

\* ============================================== raw persistence (save_raw)
MaxBatch == 2
MaxSaves == 2

\* A record handed to save_raw / save_raw_events:
\*   id      the id of the listing (fx["id"] / event["event_id"]), 0 = none
\*   hasraw  whether the enricher attached "raw"
\*   rid     the eventId carried by the attached raw, 0 = none
\*   payload sportingbet: fx.get("raw") or fx, the attached detail or the
\*           listing itself
\*   tag     stands for the rest of the record's content
FootballDetail ==
    [kind |-> "detail",
     fixture |-> [sport |-> SPORT_ID, scoreboard |-> 0, competition |-> "Serie A",
                  fixtureType |-> "PairGame",
                  participants |-> <<[name |-> 1, ptype |-> "HomeTeam"],
                                     [name |-> 2, ptype |-> "AwayTeam"]>>,
                  optionMarkets |-> <<Market("plain", "3way", "", "None",
                                             FALSE, "", FALSE)>>,
                  blob |-> "heavy"]]

TennisDetail == [FootballDetail EXCEPT !.fixture.sport = 5]

StoreRecords(p) ==
    IF p = "sportingbet"
    THEN {[id |-> i, hasraw |-> x[1], rid |-> 0, payload |-> x[2], tag |-> "a"] :
            i \in {0, 1, 2},
            x \in {<<FALSE, ListingPayload>>, <<TRUE, FootballDetail>>,
                   <<TRUE, TennisDetail>>}}
    ELSE {[id |-> i, hasraw |-> x[1], rid |-> x[2], tag |-> t] :
            i \in {0, 1}, x \in {<<FALSE, 0>>, <<TRUE, 0>>, <<TRUE, 2>>},
            t \in {"a", "b"}}

StoreBatches(p) == UNION {[1..n -> StoreRecords(p)] : n \in 0..MaxBatch}

\* sportingbet: str(fx.get("id") or fx.get("fixtureId") or "")
\* superbet:    raw_event.get("eventId") or event.get("event_id"),
\*              raw_event = dict(event.get("raw") or event)
\* betmgm:      str(evt.get("id") or evt.get("eventId") or raw.get("eventId") or "")
event_key(p, r) ==
    IF p = "sportingbet" THEN r.id
    ELSE IF p = "superbet" THEN (IF r.hasraw /\ r.rid # 0 THEN r.rid ELSE r.id)
    ELSE (IF r.id # 0 THEN r.id ELSE IF r.hasraw THEN r.rid ELSE 0)

passes_validation_always(p, r) == TRUE

\* sportingbet only: raw = prune_fixture_raw(fx.get("raw") or fx), then
\* `if not is_valid_fixture(fixture_block): continue`
passes_validation(p, r) ==
    p = "sportingbet" =>
       is_valid_fixture(fixture_block(prune_fixture_raw(r.payload)))

\* The document of one record: every field but capturedAt is a function of
\* the record; "raw" is replaced whole.
build_doc(p, r, key, now) ==
    [_id |-> 0, eventId |-> key, source |-> p, capturedAt |-> now, rec |-> r]

\* One turn of the loop: `if not event_id: continue`, the validation, then
\* operations.append(ReplaceOne({"eventId": key}, doc, upsert=True)).
record_operation_keyless(p, r, now, k) ==
    LET key == event_key(p, r) IN
    IF ~passes_validation(p, r) THEN <<>>
    ELSE <<[key |-> key, src |-> k, doc |-> build_doc(p, r, key, now)]>>

record_operation(p, r, now, k) ==
    LET key == event_key(p, r) IN
    IF key = 0 \/ ~passes_validation(p, r) THEN <<>>
    ELSE <<[key |-> key, src |-> k, doc |-> build_doc(p, r, key, now)]>>

\* The loop over the batch that collects the ReplaceOne operations.
RECURSIVE save_operations(_, _, _, _)
save_operations(p, evs, now, k) ==
    IF k > Len(evs) THEN <<>>
    ELSE record_operation(p, evs[k], now, k) \o save_operations(p, evs, now, k + 1)

\* ReplaceOne({"eventId": key}, doc, upsert=True) on a collection state
\* [coll, upserted, modified]: replace a matching document, else insert.
replace_one_insert(st, op) ==
    [st EXCEPT !.coll = @ \cup {[op.doc EXCEPT !._id = Cardinality(st.coll) + 1]},
               !.upserted = @ + 1]

replace_one(st, op) ==
    LET matches == {d \in st.coll : d.eventId = op.key} IN
    IF matches = {}
    THEN [st EXCEPT !.coll = @ \cup {[op.doc EXCEPT !._id = Cardinality(st.coll) + 1]},
                    !.upserted = @ + 1]
    ELSE LET m == CHOOSE d \in matches : TRUE
             nd == [op.doc EXCEPT !._id = m._id] IN
         [st EXCEPT !.coll = (@ \ {m}) \cup {nd},
                    !.modified = @ + (IF nd = m THEN 0 ELSE 1)]

RECURSIVE ApplyFrom(_, _, _, _)
ApplyFrom(st, ops, order, k) ==
    IF k > Len(order) THEN st
    ELSE ApplyFrom(replace_one(st, ops[order[k]]), ops, order, k + 1)

\* collection.bulk_write(operations, ordered=False): the server applies the
\* operations in an order of its choosing; a write that raises has applied
\* some of them.
Injective(f) == \A a, b \in DOMAIN f : a # b => f[a] # f[b]
FullOrders(n) == {f \in [1..n -> 1..n] : Injective(f)}
PartialOrders(n) == UNION {{f \in [1..k -> 1..n] : Injective(f)} : k \in 0..n}

bulk_write(coll, ops, order) ==
    ApplyFrom([coll |-> coll, upserted |-> 0, modified |-> 0], ops, order, 1)

CoreIdle ==
    /\ fixtures = <<>>
    /\ max_workers = 1
    /\ flush_size = 1
    /\ workers = 1
    /\ path = "none"
    /\ epc = "idle"
    /\ idx = 1
    /\ task = <<>>
    /\ consumed = {}
    /\ yielded = <<>>
    /\ raw = {}
    /\ buffer = <<>>
    /\ flushes = <<>>
    /\ mpc = "idle"
    /\ fetch_call = IdleCall

NormIdle ==
    /\ norm_coll = {}
    /\ calls = <<>>
    /\ mdoc = <<>>
    /\ mlog = <<>>

PureIdle ==
    /\ arg = <<>>
    /\ ret = <<>>

StoreInit ==
    /\ provider \in Providers
    /\ CoreIdle
    /\ events \in StoreBatches(provider)
    /\ raw_coll = {}
    /\ clock = 0
    /\ saves = <<>>
    /\ NormIdle
    /\ PureIdle

SaveEntry(ok, now, ops, writes, st) ==
    [ok |-> ok, at |-> now, ops |-> [k \in 1..Len(ops) |-> ops[k].src],
     bulk_writes |-> writes, upserted |-> st.upserted,
     modified |-> st.modified, after |-> st.coll]

\* One call of save_raw / save_raw_events on the batch, at a later reading of
\* the clock than the call before.  A call is made only while no earlier call
\* raised (the exception ends the run).
SaveBatch ==
    /\ Len(saves) < MaxSaves
    /\ \A k \in 1..Len(saves) : saves[k].ok
    /\ LET now == clock + 1
           ops == save_operations(provider, events, now, 1) IN
       /\ clock' = now
       /\ IF ops = <<>>
          THEN /\ raw_coll' = raw_coll
               /\ saves' = Append(saves,
                    SaveEntry(TRUE, now, ops, 0,
                              [coll |-> raw_coll, upserted |-> 0, modified |-> 0]))
          ELSE \E ok \in BOOLEAN :
                 \E order \in (IF ok THEN FullOrders(Len(ops))
                                    ELSE PartialOrders(Len(ops))) :
                   LET st == bulk_write(raw_coll, ops, order) IN
                   /\ raw_coll' = st.coll
                   /\ saves' = Append(saves, SaveEntry(ok, now, ops, 1, st))
    /\ UNCHANGED <<provider, coreVars, events, normVars, pureVars>>

StoreNext == SaveBatch

SpecStore == StoreInit /\ [][StoreNext]_vars

\* ---------------------------------------------------------------- C11, C12
TwoGoodSaves == Len(saves) >= 2 /\ saves[1].ok /\ saves[2].ok

EventIds(c) == {d.eventId : d \in c}

\* C11 (as stated): after the same batch was persisted twice the second run
\* has inserted nothing and the collection is the one the first run left.
C11_SecondSaveChangesNothing ==
    TwoGoodSaves =>
      /\ saves[2].upserted = 0
      /\ EventIds(saves[2].after) = EventIds(saves[1].after)
      /\ saves[2].after = saves[1].after

\* C11 (amended): the second run inserts nothing, the stored eventIds and
\* the number of documents are unchanged, and every stored document is built
\* from a record of the batch that has its eventId and differs from the first
\* run's document at most in capturedAt, which is the second run's capture
\* time, when the batch holds one record for that eventId.
KeyedRecords(key) ==
    {k \in 1..Len(events) :
       event_key(provider, events[k]) = key /\ passes_validation(provider, events[k])}

C11_SecondSaveSameButCapturedAt ==
    TwoGoodSaves =>
      /\ saves[2].upserted = 0
      /\ EventIds(saves[2].after) = EventIds(saves[1].after)
      /\ Cardinality(saves[2].after) = Cardinality(saves[1].after)
      /\ \A d2 \in saves[2].after :
           /\ d2.capturedAt = saves[2].at
           /\ \E k \in KeyedRecords(d2.eventId) : d2.rec = events[k]
           /\ \E d1 \in saves[1].after :
                /\ d1._id = d2._id
                /\ d1.eventId = d2.eventId
                /\ d1.source = d2.source
                /\ Cardinality(KeyedRecords(d2.eventId)) = 1 =>
                     d2 = [d1 EXCEPT !.capturedAt = saves[2].at]

C11_Witness ==
    /\ TwoGoodSaves
    /\ saves[2].at > saves[1].at
    /\ Cardinality(saves[2].after) = 2
    /\ saves[2].modified = 2

\* C12: in every call the operations of the one bulk write are exactly the
\* records of the batch that have an event key and pass the validation; a
\* record without a key gives no operation and no stored document, and
\* after a write that did not raise every keyed record's eventId is stored.
HasListingId(r) == r.id # 0
HasRawId(r) == r.hasraw /\ r.rid # 0
KeyDerivable(r) ==
    IF provider = "sportingbet" THEN HasListingId(r)
    ELSE HasListingId(r) \/ HasRawId(r)
Validated(r) ==
    provider # "sportingbet" \/ (r.hasraw /\ r.payload.fixture.sport = SPORT_ID)

C12_KeylessSkippedOthersWritten ==
    /\ \A d \in raw_coll : d.eventId # 0
    /\ \A n \in 1..Len(saves) :
         LET e == saves[n]
             written == {e.ops[k] : k \in 1..Len(e.ops)} IN
         /\ e.bulk_writes <= 1
         /\ Len(e.ops) = Cardinality(written)
         /\ \A i \in 1..Len(events) :
              i \in written <=> (KeyDerivable(events[i]) /\ Validated(events[i]))
         /\ e.ok =>
              \A i \in written :
                \E d \in e.after : d.rec \in {events[j] : j \in written}
                                   /\ d.eventId = event_key(provider, events[i])

C12_Witness ==
    /\ Len(events) = 2
    /\ ~KeyDerivable(events[1])
    /\ KeyDerivable(events[2]) /\ Validated(events[2])
    /\ Len(saves) >= 1
    /\ saves[1].ok
    /\ saves[1].ops = <<2>>
    /\ \E d \in raw_coll : d.rec = events[2]

\* C13: a bulk write that fails does not end the run: main never leaves its
\* loop on the exception of save_raw, so the generator is never abandoned by
\* its consumer (epc = "closed") and main never ends crashed on a write.
C13_FailedWriteNotFatal ==
    provider \in Streaming =>
      /\ epc \notin {"closing", "closed"}
      /\ (epc = "done" => mpc # "crashed")

\* ===================================== normalized events (merge_normalized)
\* A document is a Python dict: a function from the keys it has to their
\* values.  "" stands for a falsy string value (None, ""), 0 for a falsy
\* timestamp; a missing key is a key outside DOMAIN.
MaxMerges == 2

EmptyDoc == <<>>
Has(d, k) == k \in DOMAIN d
GetStr(d, k) == IF Has(d, k) THEN d[k] ELSE ""
GetTime(d, k) == IF Has(d, k) THEN d[k] ELSE 0
GetList(d, k) == IF Has(d, k) THEN d[k] ELSE <<>>
SetKey(d, k, v) == (k :> v) @@ d
SetDefaultOverwrite(d, k, v) == SetKey(d, k, v)

SetDefault(d, k, v) == IF Has(d, k) THEN d ELSE SetKey(d, k, v)

StickyFields == {"home", "away", "kickoff"}
NormProviders == {"A", "B"}

\* merged[field] = merged.get(field) or incoming[field]
sticky_value_last(e, i) == i

sticky_value(e, i) == IF e # "" THEN e ELSE i

\* for field in ("home", "away", "kickoff"): if incoming.get(field): ...
RECURSIVE merge_sticky(_, _, _)
merge_sticky(merged, incoming, fields) ==
    IF fields = <<>> THEN merged
    ELSE LET f == Head(fields)
             m == IF GetStr(incoming, f) # ""
                  THEN SetKey(merged, f, sticky_value(GetStr(merged, f), incoming[f]))
                  ELSE merged IN
         merge_sticky(m, incoming, Tail(fields))

\* merged_sources[key] = src on an insertion-ordered dict: an entry of a
\* provider already there is replaced in place, a new one goes to the end.
put_source_append(srcs, src) == Append(srcs, src)

put_source(srcs, src) ==
    IF \E k \in 1..Len(srcs) : srcs[k].provider = src.provider
    THEN [k \in 1..Len(srcs) |->
            IF srcs[k].provider = src.provider THEN src ELSE srcs[k]]
    ELSE Append(srcs, src)

\* dict comprehension / loop over a list of sources; entries without a
\* provider are left out.
RECURSIVE put_sources(_, _)
put_sources(srcs, list) ==
    IF list = <<>> THEN srcs
    ELSE put_sources(IF Head(list).provider # ""
                     THEN put_source(srcs, Head(list)) ELSE srcs,
                     Tail(list))

merge_sources_replace(existing_list, incoming_list) ==
    put_sources(<<>>, incoming_list)

merge_sources(existing_list, incoming_list) ==
    put_sources(put_sources(<<>>, existing_list), incoming_list)

\* merged.setdefault("createdAt", incoming.get("createdAt") or now)
set_created_at_always(merged, v) == SetKey(merged, "createdAt", v)

set_created_at(merged, v) == SetDefault(merged, "createdAt", v)

merge_normalized(existing, incoming, now) ==
    LET m0 == IF existing # EmptyDoc THEN existing ELSE EmptyDoc
        m1 == SetDefault(m0, "eventId", GetStr(incoming, "eventId"))
        m2 == SetDefault(m1, "normalizedId", GetStr(incoming, "normalizedId"))
        m3 == merge_sticky(m2, incoming, <<"home", "away", "kickoff">>)
        m4 == SetKey(m3, "sources",
                     merge_sources(GetList(m3, "sources"), GetList(incoming, "sources")))
        m5 == SetKey(m4, "updatedAt",
                     IF GetTime(incoming, "updatedAt") # 0
                     THEN incoming["updatedAt"] ELSE now)
    IN  set_created_at(m5, IF GetTime(incoming, "createdAt") # 0
                           THEN incoming["createdAt"] ELSE now)

\* ---- the documents merged in
StickyOf(p) ==
    IF p = "A"
    THEN [home |-> "homeA", away |-> "awayA", kickoff |-> "kickA"]
    ELSE [home |-> "homeB", away |-> "awayB", kickoff |-> "kickB"]

StickyParts(p) ==
    {EmptyDoc, StickyOf(p), [home |-> StickyOf(p).home, away |-> ""]}

SourceParts(p) ==
    {EmptyDoc,
     [sources |-> <<[provider |-> p, odds |-> 1]>>],
     [sources |-> <<[provider |-> "", odds |-> 9], [provider |-> p, odds |-> 2]>>]}

TimeParts(p) ==
    {EmptyDoc,
     IF p = "A" THEN [updatedAt |-> 10, createdAt |-> 10]
                ELSE [updatedAt |-> 20, createdAt |-> 20]}

IdPart(p) ==
    [normalizedId |-> "X", eventId |-> IF p = "A" THEN "eA" ELSE "eB"]

IncomingDocsOf(p) ==
    {IdPart(p) @@ st @@ sr @@ tm :
       st \in StickyParts(p), sr \in SourceParts(p), tm \in TimeParts(p)}

IncomingDocs == UNION {IncomingDocsOf(p) : p \in NormProviders}

\* what may be stored under the key before the first merge
OldDoc ==
    [normalizedId |-> "X", home |-> "", away |-> "awayOld",
     sources |-> <<[provider |-> "", odds |-> 9], [provider |-> "A", odds |-> 7],
                   [provider |-> "A", odds |-> 8]>>]

\* a document of another key: the existing document handed to a merge is
\* the one found under the key the incoming document was paired with
OtherKeyDoc ==
    [normalizedId |-> "Y", eventId |-> "", createdAt |-> 5, updatedAt |-> 5,
     sources |-> <<>>]

ExistingDocs == {EmptyDoc, OldDoc, OtherKeyDoc}

StoreIdle ==
    /\ events = <<>>
    /\ raw_coll = {}
    /\ saves = <<>>

MergeInit ==
    /\ provider = "none"
    /\ CoreIdle
    /\ StoreIdle
    /\ clock = 1
    /\ norm_coll = {}
    /\ calls = <<>>
    /\ PureIdle
    /\ mdoc \in ExistingDocs
    /\ mlog = [n |-> 0, start |-> mdoc, incoming |-> EmptyDoc,
               before |-> EmptyDoc, at |-> 0, repeat |-> FALSE]

\* One call merged = merge_normalized(existing, incoming) on the key's
\* document, at a clock reading not before the last one.
Merge(incoming) ==
    /\ mlog.n < MaxMerges
    /\ \E d \in {0, 1} :
         LET now == clock + d IN
         /\ clock' = now
         /\ mdoc' = merge_normalized(mdoc, incoming, now)
         /\ mlog' = [n |-> mlog.n + 1, start |-> mlog.start,
                     incoming |-> incoming, before |-> mdoc, at |-> now,
                     repeat |-> (mlog.n >= 1 /\ mlog.incoming = incoming)]
    /\ UNCHANGED <<provider, coreVars, storeVars, norm_coll, calls, pureVars>>

MergeNext == \E incoming \in IncomingDocs : Merge(incoming)

SpecMerge == MergeInit /\ [][MergeNext]_vars

\* ---- claims about merge_normalized
Merged == mlog'.n = mlog.n + 1
SourceMap(d) == {GetList(d, "sources")[k] : k \in DOMAIN GetList(d, "sources")}
ProvidersOf(d) == {s.provider : s \in SourceMap(d)} \ {""}

\* C14: first-writer-wins on home, away and kickoff: a merge keeps a
\* non-empty existing value whatever the incoming document holds, and takes
\* the incoming value when the existing one is absent or empty; so a field,
\* once non-empty, never changes.
C14_FirstWriterWins ==
    [][Merged =>
         \A f \in StickyFields :
            LET e == GetStr(mdoc, f)
                i == GetStr(mlog'.incoming, f) IN
            /\ e # "" => (Has(mdoc', f) /\ mdoc'[f] = e)
            /\ e = "" => GetStr(mdoc', f) = i]_vars

C14_Witness ==
    /\ mlog.n >= 2
    /\ GetStr(mlog.before, "home") # ""
    /\ GetStr(mlog.incoming, "home") \notin {"", GetStr(mlog.before, "home")}
    /\ mdoc["home"] = mlog.before["home"]
    /\ GetStr(mlog.before, "kickoff") = ""
    /\ GetStr(mdoc, "kickoff") = GetStr(mlog.incoming, "kickoff")
    /\ GetStr(mdoc, "kickoff") # ""

SameIncomingAgain == Merged /\ mlog.n >= 1 /\ mlog'.incoming = mlog.incoming

\* C15 as stated: merging the same incoming document a second time leaves
\* every field as the first merge left it, timestamps included.
C15_SecondMergeChangesNothing ==
    [][SameIncomingAgain => mdoc' = mdoc]_vars

\* C15: merging the same incoming document a second time leaves every field
\* but updatedAt as the first merge left it, 'sources' in content and order
\* included; updatedAt is left too when the incoming document carries one,
\* and is the time of the second merge otherwise.
C15_SecondMergeChangesOnlyUpdatedAt ==
    [][SameIncomingAgain =>
         /\ DOMAIN mdoc' = DOMAIN mdoc
         /\ \A k \in DOMAIN mdoc \ {"updatedAt"} : mdoc'[k] = mdoc[k]
         /\ mdoc'["updatedAt"] =
              IF GetTime(mlog'.incoming, "updatedAt") # 0
              THEN mdoc["updatedAt"] ELSE mlog'.at]_vars

C15_Witness ==
    /\ mlog.repeat
    /\ ProvidersOf(mlog.incoming) # {}
    /\ GetStr(mlog.incoming, "home") # ""
    /\ ~Has(mlog.incoming, "updatedAt")
    /\ mdoc["updatedAt"] # mlog.before["updatedAt"]
    /\ mdoc["sources"] = mlog.before["sources"]

\* C16: for documents A and B of different providers merged into an empty
\* key, A then B and B then A give the same provider-to-sub-document
\* mapping, and in each order home, away and kickoff hold the non-empty
\* values of the document merged first.
C16_CommutativeOnSources ==
    [][(Merged /\ mlog.n = 1 /\ mlog.start = EmptyDoc
          /\ ProvidersOf(mlog.incoming) \cap ProvidersOf(mlog'.incoming) = {}) =>
         LET A == mlog.incoming
             B == mlog'.incoming
             BA == merge_normalized(merge_normalized(EmptyDoc, B, mlog.at), A, mlog'.at) IN
         /\ SourceMap(mdoc') = SourceMap(BA)
         /\ \A f \in StickyFields :
               /\ GetStr(A, f) # "" => mdoc'[f] = A[f]
               /\ GetStr(B, f) # "" => BA[f] = B[f]]_vars

C16_Witness ==
    /\ mlog.n = 2
    /\ mlog.start = EmptyDoc
    /\ ProvidersOf(mdoc) = NormProviders
    /\ ProvidersOf(mlog.before) \cap ProvidersOf(mlog.incoming) = {}
    /\ GetStr(mlog.before, "home") # ""
    /\ GetStr(mlog.incoming, "home") \notin {"", mdoc["home"]}

\* C20: createdAt is set once: after the first merge no later merge changes
\* it, while updatedAt after each merge is that merge's incoming updatedAt,
\* or the time of the merge when the incoming document has none.
C20_CreatedOnceUpdatedEachMerge ==
    [][Merged =>
         /\ Has(mdoc', "createdAt")
         /\ mlog.n >= 1 => mdoc'["createdAt"] = mdoc["createdAt"]
         /\ mdoc'["updatedAt"] =
              IF GetTime(mlog'.incoming, "updatedAt") # 0
              THEN mlog'.incoming["updatedAt"] ELSE mlog'.at]_vars

C20_Witness ==
    /\ mlog.n >= 2
    /\ GetTime(mlog.incoming, "createdAt") \notin {0, mlog.before["createdAt"]}
    /\ mdoc["createdAt"] = mlog.before["createdAt"]
    /\ mdoc["updatedAt"] = mlog.incoming["updatedAt"]
    /\ mdoc["updatedAt"] # mlog.before["updatedAt"]

\* ===================================== normalized events (upsert_normalized)
\* The normalized collection is a set of documents, each with the "_id" the
\* server gave it at insertion; nothing is ever deleted.
\* documents submitted over all the calls of a run
MaxSubmitted == 3

\* doc.get("normalizedId") or doc.get("eventId")
merge_key(doc) ==
    IF GetStr(doc, "normalizedId") # "" THEN doc["normalizedId"]
    ELSE GetStr(doc, "eventId")

IsKey(k) == k # ""

\* norm_ids: the keys of the documents that have one, in list order
norm_ids(documents) ==
    SelectSeq([k \in 1..Len(documents) |-> merge_key(documents[k])], IsKey)

\* _fetch_existing_map: find({"normalizedId": {"$in": ids}}), indexed by
\* str(doc.get("normalizedId")): no entry (EmptyDoc) for an id nothing is
\* stored under; of several documents stored under one id the cursor's last
\* stays, whichever that is.
fetch_existing_map_none(coll, ids) == {[id \in ids |-> EmptyDoc]}

fetch_existing_map(coll, ids) ==
    {m \in [ids -> coll \cup {EmptyDoc}] :
       \A id \in ids :
          LET found == {d \in coll : GetStr(d, "normalizedId") = id} IN
          IF found = {} THEN m[id] = EmptyDoc ELSE m[id] \in found}

\* for doc, norm_id in zip(documents, norm_ids): the k-th document of the
\* list is paired with the k-th entry of norm_ids; zip stops at the shorter.
PairedKey(documents, k) == norm_ids(documents)[k]

upsert_operations(existing_map, documents, now) ==
    [k \in 1..Len(norm_ids(documents)) |->
       LET norm_id == PairedKey(documents, k)
           existing == existing_map[norm_id] IN
       [key |-> norm_id, src |-> k,
        doc |-> merge_normalized(existing, documents[k], now)]]

\* ReplaceOne({"normalizedId": key}, merged, upsert=True) on a state
\* [coll, upserted, modified, failed]: the outcomes the server may produce.
\* One stored document whose normalizedId is the key is replaced, its _id
\* staying (a replacement that carries another _id is a write error);
\* without a match the replacement is inserted as it is, under a new _id
\* unless it carries one.
replaced_with(st, op, m) ==
    IF Has(op.doc, "_id") /\ op.doc["_id"] # m["_id"]
    THEN [st EXCEPT !.failed = TRUE]
    ELSE LET nd == SetKey(op.doc, "_id", m["_id"]) IN
         [st EXCEPT !.coll = (@ \ {m}) \cup {nd},
                    !.modified = @ + (IF nd = m THEN 0 ELSE 1)]

replace_one_norm(st, op) ==
    LET matches == {d \in st.coll : GetStr(d, "normalizedId") = op.key} IN
    IF matches = {}
    THEN {[st EXCEPT !.coll = @ \cup {SetDefault(op.doc, "_id", Cardinality(st.coll) + 1)},
                     !.upserted = @ + 1]}
    ELSE {replaced_with(st, op, m) : m \in matches}

RECURSIVE ApplyNormFrom(_, _, _, _)
ApplyNormFrom(sts, ops, order, k) ==
    IF k > Len(order) THEN sts
    ELSE ApplyNormFrom(UNION {replace_one_norm(st, ops[order[k]]) : st \in sts},
                       ops, order, k + 1)

\* collection.bulk_write(operations, ordered=False): every operation is
\* tried, in any order; a write error raises after the last one.
bulk_write_norm(coll, ops, order) ==
    ApplyNormFrom({[coll |-> coll, upserted |-> 0, modified |-> 0, failed |-> FALSE]},
                  ops, order, 1)

\* ---- the documents submitted
KeyedA ==
    IdPart("A") @@ StickyOf("A") @@ [sources |-> <<[provider |-> "A", odds |-> 1]>>]
KeyedB ==
    IdPart("B") @@ [sources |-> <<[provider |-> "B", odds |-> 1]>>]
KeyedBSticky == KeyedB @@ StickyOf("B")
FallbackA ==
    [eventId |-> "eA", sources |-> <<[provider |-> "A", odds |-> 2]>>]
Keyless ==
    [home |-> "homeK", sources |-> <<[provider |-> "B", odds |-> 2]>>]

UpsertDocs == {KeyedA, KeyedB, KeyedBSticky, FallbackA, Keyless}
DocumentLists == UNION {[1..n -> UpsertDocs] : n \in 0..MaxSubmitted}

RECURSIVE Submitted(_)
Submitted(cs) == IF cs = <<>> THEN 0 ELSE Len(Head(cs).documents) + Submitted(Tail(cs))

NormInit ==
    /\ provider = "none"
    /\ CoreIdle
    /\ StoreIdle
    /\ clock = 1
    /\ norm_coll = {}
    /\ calls = <<>>
    /\ mdoc = EmptyDoc
    /\ mlog = <<>>
    /\ PureIdle

\* One call upsert_normalized(documents); the clock is read once per call.
\* A write error leaves the call by the exception of bulk_write.
Upsert(documents) ==
    /\ Len(calls) < MaxSubmitted
    /\ Submitted(calls) + Len(documents) <= MaxSubmitted
    /\ LET now == clock + 1
           ids == {norm_ids(documents)[k] : k \in 1..Len(norm_ids(documents))} IN
       \E existing_map \in fetch_existing_map(norm_coll, ids) :
          LET ops == upsert_operations(existing_map, documents, now) IN
          \E order \in FullOrders(Len(ops)) :
             \E st \in bulk_write_norm(norm_coll, ops, order) :
                /\ clock' = now
                /\ norm_coll' = st.coll
                /\ calls' = Append(calls,
                             [documents |-> documents, at |-> now,
                              ops |-> [k \in 1..Len(ops) |->
                                        [src |-> ops[k].src, key |-> ops[k].key]],
                              raised |-> st.failed,
                              returned |-> st.upserted + st.modified,
                              before |-> norm_coll, after |-> st.coll])
    /\ UNCHANGED <<provider, coreVars, storeVars, mdoc, mlog, pureVars>>

NormNext == \E documents \in DocumentLists : Upsert(documents)

SpecNorm == NormInit /\ [][NormNext]_vars

\* ---- claims about upsert_normalized
StoredUnder(coll, id) == {d \in coll : GetStr(d, "normalizedId") = id}
OneProvider(d) == Cardinality(ProvidersOf(d)) = 1
Carries(d, f) == GetStr(d, f) # ""

\* two successive calls, each submitting one document of one provider, the
\* two of different providers and of the same normalizedId
TwoProviderCalls(n) ==
    /\ n + 1 <= Len(calls)
    /\ Len(calls[n].documents) = 1
    /\ Len(calls[n + 1].documents) = 1
    /\ LET A == calls[n].documents[1]
           B == calls[n + 1].documents[1] IN
       /\ GetStr(A, "normalizedId") # ""
       /\ GetStr(B, "normalizedId") = A["normalizedId"]
       /\ OneProvider(A) /\ OneProvider(B)
       /\ ProvidersOf(A) # ProvidersOf(B)

\* C17: after two successive calls that submit two providers' documents of
\* one normalizedId, in either order, to a collection with at most one
\* document of that normalizedId, the document stored under it has both
\* providers' entries, and a field of home, away, kickoff that only one of
\* the two carries has the same value whichever came first: the one stored
\* before, or else the carrier's.
C17_TwoCallsBothProviders ==
    \A n \in 1..Len(calls) :
       (TwoProviderCalls(n)
          /\ Cardinality(StoredUnder(calls[n].before, calls[n].documents[1]["normalizedId"])) <= 1) =>
          LET A == calls[n].documents[1]
              B == calls[n + 1].documents[1]
              id == A["normalizedId"]
              olds == StoredUnder(calls[n].before, id)
              old == IF olds = {} THEN EmptyDoc ELSE CHOOSE d \in olds : TRUE
              now == StoredUnder(calls[n + 1].after, id) IN
          /\ ~calls[n].raised /\ ~calls[n + 1].raised
          /\ Cardinality(now) = 1
          /\ \A d \in now :
               /\ ProvidersOf(A) \cup ProvidersOf(B) \subseteq ProvidersOf(d)
               /\ \A f \in StickyFields :
                    (Carries(A, f) # Carries(B, f)) =>
                       d[f] = IF Carries(old, f) THEN old[f]
                              ELSE IF Carries(A, f) THEN A[f] ELSE B[f]

C17_Witness ==
    /\ Len(calls) = 2
    /\ TwoProviderCalls(1)
    /\ calls[1].before = {}
    /\ ~Carries(calls[1].documents[1], "home")
    /\ Carries(calls[2].documents[1], "home")
    /\ \E d \in norm_coll :
         /\ ProvidersOf(d) = NormProviders
         /\ d["home"] = calls[2].documents[1]["home"]

\* C18: every document of the list that has a key gives one operation, on
\* its own key (normalizedId, else eventId), and a document without a key
\* gives none.
C18_EachDocumentUnderItsOwnKey ==
    \A n \in 1..Len(calls) :
       LET c == calls[n] IN
       \A i \in 1..Len(c.documents) :
          LET mine == {k \in 1..Len(c.ops) : c.ops[k].src = i} IN
          IF IsKey(merge_key(c.documents[i]))
          THEN /\ Cardinality(mine) = 1
               /\ \A k \in mine : c.ops[k].key = merge_key(c.documents[i])
          ELSE mine = {}

\* C19: the collection never holds two documents of one merge key
\* (normalizedId, or eventId when normalizedId is absent).
C19_OneDocumentPerKey ==
    \A d, e \in norm_coll :
       (IsKey(merge_key(d)) /\ merge_key(d) = merge_key(e)) => d = e

\* C21: a merge leaves eventId and normalizedId of the existing document as
\* they are: a field the existing document has keeps its value whatever the
\* incoming document holds, and a field it lacks takes the incoming value.
C21_IdsSetOnlyIfAbsent ==
    [][Merged =>
         \A f \in {"eventId", "normalizedId"} :
            /\ Has(mdoc', f)
            /\ mdoc'[f] = IF Has(mdoc, f) THEN mdoc[f]
                          ELSE GetStr(mlog'.incoming, f)]_vars

C21_Witness ==
    /\ mlog.n >= 1
    /\ Has(mlog.before, "eventId") /\ Has(mlog.before, "normalizedId")
    /\ mlog.incoming["eventId"] # mlog.before["eventId"]
    /\ mlog.incoming["normalizedId"] # mlog.before["normalizedId"]
    /\ mdoc["eventId"] = mlog.before["eventId"]
    /\ mdoc["normalizedId"] = mlog.before["normalizedId"]

\* ================= one detail through prune_fixture_raw and is_valid_fixture
MaxMarkets == 2
MaxParticipants == 2

OptionMarkets ==
    {Market("plain", "3way", "", "None", FALSE, "", FALSE),
     Market("half", "3way", "FirstHalf", "None", FALSE, "", FALSE),
     Market("corner", "BTTS", "RegularTime", "Corner", FALSE, "", FALSE),
     Market("range", "3way", "RegularTime", "Goal", TRUE, "", FALSE),
     Market("other", "Other", "", "None", FALSE, "Plain", FALSE),
     Market("boosted", "Other", "FirstHalf", "Corner", TRUE, "", TRUE),
     Market("bigodd", "3way", "FirstHalf", "Corner", TRUE, "BigOdd", FALSE),
     Market("combo", "ThreeWayAndBTTS", "RegularTime", "Corner", TRUE, "", FALSE)}

MarketLists == UNION {[1..n -> OptionMarkets] : n \in 0..MaxMarkets}

\* "" for an entry without properties.type
ParticipantTypes == {"HomeTeam", "Player", ""}

ParticipantLists ==
    UNION {{[k \in 1..n |-> [name |-> k, ptype |-> f[k]]] :
              f \in [1..n -> ParticipantTypes]} : n \in 0..MaxParticipants}

\* sport.id, scoreboard.sportId (0 = missing), competition name, fixtureType
FixtureAttrs ==
    {<<0, 0, "", "PairGame">>, <<4, 0, "Serie A", "PairGame">>,
     <<5, 0, "Serie A", "PairGame">>, <<0, 5, "Serie A", "PairGame">>,
     <<0, 4, "Serie A", "">>, <<4, 0, "Apostas Multiplas", "PairGame">>,
     <<4, 5, "Serie A", "Tournament">>, <<4, 0, "Multipla do Dia", "">>}

Details ==
    {[kind |-> "detail",
      fixture |-> [sport |-> a[1], scoreboard |-> a[2], competition |-> a[3],
                   fixtureType |-> a[4], participants |-> ps,
                   optionMarkets |-> ms, blob |-> "heavy"]] :
       a \in FixtureAttrs, ps \in ParticipantLists, ms \in MarketLists}

ReduceInit ==
    /\ provider = "sportingbet"
    /\ CoreIdle
    /\ StoreIdle
    /\ clock = 0
    /\ NormIdle
    /\ arg \in Details \cup {ListingPayload}
    /\ ret = [pc |-> "start"]

\* raw = prune_fixture_raw(raw)
Prune ==
    /\ ret.pc = "start"
    /\ ret' = [pc |-> "pruned", raw |-> prune_fixture_raw(arg)]
    /\ UNCHANGED <<provider, coreVars, storeVars, clock, normVars, arg>>

\* fixture_block = raw.get("fixture", {}); is_valid_fixture(fixture_block)
Validate ==
    /\ ret.pc = "pruned"
    /\ ret' = [pc |-> "validated", raw |-> ret.raw,
               valid |-> is_valid_fixture(fixture_block(ret.raw))]
    /\ UNCHANGED <<provider, coreVars, storeVars, clock, normVars, arg>>

ReduceNext == Prune \/ Validate

SpecReduce == ReduceInit /\ [][ReduceNext]_vars

\* ---- claims about the reducer and the validity filter
Pruned == ret.pc \in {"pruned", "validated"} /\ arg.kind = "detail"
InMarkets == arg.fixture.optionMarkets
OutMarkets == ret.raw.fixture.optionMarkets
PassesKeepRule(m) == should_keep_market(m)
IsSlimOf(out, in) ==
    /\ out.id = in.id
    /\ out.mtype = in.mtype
    /\ "blob" \notin DOMAIN out

\* C22: the reducer never empties the market list by filtering: when no
\* market of a fixture passes the keep rule the reduced fixture holds all
\* its markets, slimmed, so the reduced list is non-empty whenever the input
\* list is.
C22_MarketsNeverEmptied ==
    Pruned =>
      /\ InMarkets # <<>> => OutMarkets # <<>>
      /\ (\A k \in 1..Len(InMarkets) : ~PassesKeepRule(InMarkets[k])) =>
            /\ Len(OutMarkets) = Len(InMarkets)
            /\ \A k \in 1..Len(InMarkets) : IsSlimOf(OutMarkets[k], InMarkets[k])

C22_Witness ==
    /\ Pruned
    /\ Len(InMarkets) = 2
    /\ \A k \in 1..2 : ~PassesKeepRule(InMarkets[k])
    /\ Len(OutMarkets) = 2

IsPromotional(m) == m.boost \/ m.subtype \in PROMO_MARKET_SUBTYPES

\* C24: a promotional market (a boost signal in an option, or a promotional
\* MarketSubType) is always in the reduced fixture, whatever its MarketType,
\* Period, Happening or RangeValue, also when other markets pass the filter.
C24_PromoAlwaysRetained ==
    Pruned =>
      \A k \in 1..Len(InMarkets) :
         IsPromotional(InMarkets[k]) =>
            \E j \in 1..Len(OutMarkets) : IsSlimOf(OutMarkets[j], InMarkets[k])

C24_Witness ==
    /\ Pruned
    /\ Len(InMarkets) = 2
    /\ InMarkets[1].id = "plain"
    /\ InMarkets[2].id = "boosted"
    /\ InMarkets[2].mtype \notin BASE_ALLOWED_MARKET_TYPES
    /\ Len(OutMarkets) = 2
    /\ OutMarkets[2].id = "boosted"

SportIdOf(f) == IF f.sport # 0 THEN f.sport ELSE f.scoreboard
FiveChecks(f) ==
    /\ SportIdOf(f) # 0 => SportIdOf(f) = SPORT_ID
    /\ Len(f.participants) >= 2
    /\ Len(f.optionMarkets) >= 1
    /\ f.competition \notin {"Apostas Multiplas", "Multipla do Dia"}
    /\ f.fixtureType # "" => f.fixtureType = "PairGame"

\* C25: is_valid_fixture is true exactly when the five checks pass (sport id,
\* if present, is football; two participants or more; one market or more;
\* not a multiples composite; fixtureType, if present, pair-game); a record
\* with one participant is rejected, one with two participants, a market and
\* no failing tag is accepted.
C25_ValidIffFiveChecks ==
    ret.pc = "validated" =>
      LET f == fixture_block(ret.raw) IN
      /\ ret.valid <=> FiveChecks(f)
      /\ Len(f.participants) = 1 => ~ret.valid

C25_Witness ==
    /\ ret.pc = "validated"
    /\ ret.valid
    /\ Len(fixture_block(ret.raw).participants) = 2
    /\ Len(fixture_block(ret.raw).optionMarkets) = 1
    /\ fixture_block(ret.raw).fixtureType = ""

\* C26: a detail with two participants, one option market of MarketType 3way
\* and fixtureType PairGame (no foreign sport id, no multiples competition)
\* is valid after reduction and keeps its market and both participants,
\* whatever else the participant entries have or lack.
C26_ScenarioValid ==
    (/\ ret.pc = "validated"
     /\ arg.kind = "detail"
     /\ Len(arg.fixture.participants) = 2
     /\ Len(InMarkets) = 1
     /\ InMarkets[1].mtype = "3way"
     /\ arg.fixture.fixtureType = "PairGame"
     /\ SportIdOf(arg.fixture) \in {0, SPORT_ID}
     /\ ~NamesMultiples(arg.fixture.competition)) =>
       /\ ret.valid
       /\ Len(OutMarkets) = 1
       /\ Len(ret.raw.fixture.participants) = 2

\* ================= superbet: prune_event_raw on a fetched event
MaxOdds == 3

DEFAULT_MARKET_IDS == {547, 539, 531, 555, 546, 530, 532, 542, 557}
ALLOWED_MARKET_IDS == DEFAULT_MARKET_IDS

\* an odd of the detail payload; 600 is a market outside the allow-set
Odds ==
    {[marketId |-> m, outcomeId |-> 1, offerStateId |-> o, blob |-> "heavy"] :
        m \in {547, 539, 600}, o \in {"None", "open"}}

RawEvents ==
    UNION {[markets : BOOLEAN, odds : [1..n -> Odds]] : n \in 0..MaxOdds}

slim_odd(odd) ==
    IF odd.offerStateId # "None"
    THEN [marketId |-> odd.marketId, outcomeId |-> odd.outcomeId,
          offerStateId |-> odd.offerStateId]
    ELSE [marketId |-> odd.marketId, outcomeId |-> odd.outcomeId]

RECURSIVE filtered_odds(_, _)
filtered_odds(odds, allowed_markets) ==
    IF odds = <<>> THEN <<>>
    ELSE IF Head(odds).marketId \notin allowed_markets
         THEN filtered_odds(Tail(odds), allowed_markets)
         ELSE <<slim_odd(Head(odds))>> \o filtered_odds(Tail(odds), allowed_markets)

\* raw_event.pop("markets", None); raw_event["odds"] = filtered_odds
prune_event_raw(raw_event, allowed_markets) ==
    [markets |-> FALSE, odds |-> filtered_odds(raw_event.odds, allowed_markets)]

PruneEventInit ==
    /\ provider = "superbet"
    /\ CoreIdle
    /\ StoreIdle
    /\ clock = 0
    /\ NormIdle
    /\ arg \in RawEvents
    /\ ret = [pc |-> "start"]

\* fetch_full_event: raw_event = prune_event_raw(raw_event, ALLOWED_MARKET_IDS)
PruneEvent ==
    /\ ret.pc = "start"
    /\ ret' = [pc |-> "pruned", raw |-> prune_event_raw(arg, ALLOWED_MARKET_IDS)]
    /\ UNCHANGED <<provider, coreVars, storeVars, clock, normVars, arg>>

PruneEventNext == PruneEvent

SpecPruneEvent == PruneEventInit /\ [][PruneEventNext]_vars

\* C23: prune_event_raw never empties the odds list by filtering: when no
\* odd of an event has a marketId of the allow-set the reduced event holds
\* all its odds, slimmed, so the reduced odds list is non-empty whenever the
\* input odds list is.
C23_OddsNeverEmptied ==
    ret.pc = "pruned" =>
      /\ arg.odds # <<>> => ret.raw.odds # <<>>
      /\ (\A k \in 1..Len(arg.odds) : arg.odds[k].marketId \notin ALLOWED_MARKET_IDS) =>
            /\ Len(ret.raw.odds) = Len(arg.odds)
            /\ \A k \in 1..Len(arg.odds) :
                  ret.raw.odds[k].marketId = arg.odds[k].marketId

\* ---- save_raw of sportingbet and the validity filter
ReducedFixtureOf(r) == fixture_block(prune_fixture_raw(r.payload))
InvalidRecord(r) == ~FiveChecks(ReducedFixtureOf(r))

\* C27: sportingbet stores no invalid record: every document of the raw
\* collection is built from a record whose reduced fixture passes the five
\* checks; a record failing them gives no operation and no document (no
\* tombstone under its id), and the valid keyed records of its batch are
\* written all the same.
C27_NoInvalidRecordStored ==
    provider = "sportingbet" =>
      /\ \A d \in raw_coll : ~InvalidRecord(d.rec)
      /\ \A n \in 1..Len(saves) :
           LET e == saves[n]
               written == {e.ops[k] : k \in 1..Len(e.ops)} IN
           \A i \in 1..Len(events) :
              /\ InvalidRecord(events[i]) =>
                   /\ i \notin written
                   /\ \A d \in e.after : d.rec # events[i]
              /\ (~InvalidRecord(events[i]) /\ events[i].id # 0) =>
                   /\ i \in written
                   /\ e.ok => \E d \in e.after : d.eventId = events[i].id

C27_Witness ==
    /\ provider = "sportingbet"
    /\ Len(events) = 2
    /\ events[1].id = 1 /\ events[1].hasraw /\ InvalidRecord(events[1])
    /\ events[2].id = 2 /\ ~InvalidRecord(events[2])
    /\ Len(saves) >= 1
    /\ saves[1].ok
    /\ saves[1].ops = <<2>>
    /\ {d.eventId : d \in raw_coll} = {2}

\* ================= main(): what a flush hands to save_raw
\* The record of listing i in a batch: the listing, with "raw" when the
\* enricher attached a detail (detail: the payload that was fetched).
FlushRecord(i, detail) ==
    IF provider = "sportingbet"
    THEN [id |-> fixtures[i], hasraw |-> i \in raw, rid |-> 0,
          payload |-> IF i \in raw THEN detail ELSE ListingPayload, tag |-> "a"]
    ELSE [id |-> fixtures[i], hasraw |-> i \in raw, rid |-> 0, tag |-> "a"]

\* the ReplaceOne operations save_raw builds from one flushed batch
FlushOperations(batch, detail) ==
    save_operations(provider,
                    [k \in 1..Len(batch) |-> FlushRecord(batch[k], detail)], 1, 1)

FetchedDetails == {FootballDetail, TennisDetail}

FetchFailed(i) == HasId(i) /\ task[i] = "None"
InAFlush(i) ==
    \E n \in 1..Len(flushes) : \E k \in 1..Len(flushes[n]) : flushes[n][k] = i

\* C28: in each collector a listing that has an id and whose detail fetch
\* failed is not dropped: once main has finished it was part of a flush,
\* and the flush it is part of holds a replace operation keyed by its id,
\* built from the listing.
C28_FailedFetchStillPersisted ==
    /\ mpc = "finished" => \A i \in 1..N : FetchFailed(i) => InAFlush(i)
    /\ \A n \in 1..Len(flushes) : \A k \in 1..Len(flushes[n]) :
         FetchFailed(flushes[n][k]) =>
            \A detail \in FetchedDetails :
               LET ops == FlushOperations(flushes[n], detail) IN
               \E o \in 1..Len(ops) :
                  /\ ops[o].src = k
                  /\ ops[o].key = fixtures[flushes[n][k]]
                  /\ ~ops[o].doc.rec.hasraw

\* ================= dedupe_fixtures (sportingbet), dedupe_events (betmgm)
MaxDedupe == 3

\* A listing: id, the second id field (fixtureId / eventId), 0 = missing or
\* empty, and tag for the rest of its content.
DedupeRecords == [id : {0, 1, 2}, alt : {0, 1}, tag : {"a", "b"}]

DedupeInputs == UNION {[1..n -> DedupeRecords] : n \in 0..MaxDedupe}

\* str(fx.get("id") or fx.get("fixtureId") or "")
\* str(evt.get("id") or evt.get("eventId") or "")
dedupe_key(r) == IF r.id # 0 THEN r.id ELSE r.alt

SeenKeys(seen) == {dedupe_key(seen[j]) : j \in 1..Len(seen)}

\* one turn of the loop on the records kept so far, in insertion order
dedupe_step_last_wins(seen, r) ==
    IF dedupe_key(r) = 0 THEN seen
    ELSE IF dedupe_key(r) \in SeenKeys(seen)
    THEN [j \in 1..Len(seen) |->
            IF dedupe_key(seen[j]) = dedupe_key(r) THEN r ELSE seen[j]]
    ELSE Append(seen, r)

dedupe_step(seen, r) ==
    IF dedupe_key(r) = 0 THEN seen
    ELSE IF dedupe_key(r) \in SeenKeys(seen) THEN seen
    ELSE Append(seen, r)

DedupeInit ==
    /\ provider \in {"sportingbet", "betmgm"}
    /\ CoreIdle
    /\ StoreIdle
    /\ clock = 0
    /\ NormIdle
    /\ arg \in DedupeInputs
    /\ ret = [pc |-> "loop", k |-> 1, seen |-> <<>>]

\* `for fx in fixtures:` body
DedupeStep ==
    /\ ret.pc = "loop"
    /\ ret.k <= Len(arg)
    /\ ret' = [ret EXCEPT !.k = @ + 1, !.seen = dedupe_step(@, arg[ret.k])]
    /\ UNCHANGED <<provider, coreVars, storeVars, clock, normVars, arg>>

\* return list(seen.values()) / return deduped
DedupeReturn ==
    /\ ret.pc = "loop"
    /\ ret.k > Len(arg)
    /\ ret' = [pc |-> "done", out |-> ret.seen]
    /\ UNCHANGED <<provider, coreVars, storeVars, clock, normVars, arg>>

DedupeNext == DedupeStep \/ DedupeReturn

SpecDedupe == DedupeInit /\ [][DedupeNext]_vars

NativeIdOf(r) == IF r.id # 0 THEN r.id ELSE r.alt
FirstIndexOf(key) ==
    CHOOSE k \in 1..Len(arg) :
       /\ NativeIdOf(arg[k]) = key
       /\ \A j \in 1..(k - 1) : NativeIdOf(arg[j]) # key

\* C29: the dedupe returns one record per distinct non-empty native id of
\* its input, the first occurrence of that id, in the order of the first
\* occurrences, and no record without an id; the ids of the returned
\* listings are pairwise different.
C29_FirstOccurrencePerId ==
    ret.pc = "done" =>
      LET out == ret.out IN
      /\ \A j \in 1..Len(out) : NativeIdOf(out[j]) # 0
      /\ \A i, j \in 1..Len(out) : i # j => NativeIdOf(out[i]) # NativeIdOf(out[j])
      /\ {NativeIdOf(out[j]) : j \in 1..Len(out)} =
            {NativeIdOf(arg[k]) : k \in 1..Len(arg)} \ {0}
      /\ \A j \in 1..Len(out) : out[j] = arg[FirstIndexOf(NativeIdOf(out[j]))]
      /\ \A i, j \in 1..Len(out) :
            i < j => FirstIndexOf(NativeIdOf(out[i])) < FirstIndexOf(NativeIdOf(out[j]))

C29_Witness ==
    /\ ret.pc = "done"
    /\ Len(arg) = 3
    /\ NativeIdOf(arg[1]) = 2
    /\ NativeIdOf(arg[2]) = 0
    /\ NativeIdOf(arg[3]) = 2
    /\ arg[1] # arg[3]
    /\ ret.out = <<arg[1]>>

\* ================= the keys of one flush
\* sportingbet and betmgm: main hands the enricher the output of
\* dedupe_fixtures / dedupe_events, where no id occurs twice; superbet: main
\* hands it the list of fetch_events after the date filter, as it is.
PassedThroughDedupe ==
    provider \in {"sportingbet", "betmgm"} =>
       \A i, j \in 1..N : (i # j /\ HasId(i)) => fixtures[i] # fixtures[j]

\* C30: the replace operations of one bulk write have pairwise different
\* eventIds, in each pipeline and for every list of listings the provider
\* returns, also one that repeats an id.
C30_FlushKeysDistinct ==
    PassedThroughDedupe =>
      \A n \in 1..Len(flushes) : \A detail \in FetchedDetails :
         LET ops == FlushOperations(flushes[n], detail) IN
         \A a, b \in 1..Len(ops) : a # b => ops[a].key # ops[b].key

\* ================= the enriched stream under fair scheduling
\* Every fetch attempt returns or times out, the pool's threads are
\* scheduled, and the consumer asks for the next record or lets go of the
\* generator: no step that can be taken is put off for ever.
LiveInit ==
    /\ Init
    /\ provider \in Streaming
    /\ max_workers \in {1, 2}
    /\ flush_size = 1

\* the steps of the two generators and of their consumer
LiveNext ==
    \/ StartStreaming
    \/ SeqYieldNoId
    \/ SeqFetchStart
    \/ SeqFetchEnd
    \/ SeqReturn
    \/ SubmitStep
    \/ SubmitDone
    \/ \E i \in 1..N : PoolStart(i)
    \/ \E i \in 1..N : PoolFinish(i)
    \/ \E i \in 1..N : Collect(i)
    \/ CollectDone
    \/ PoolShutdown
    \/ MainEnd

SpecLive == LiveInit /\ [][LiveNext]_vars /\ WF_vars(LiveNext)

GeneratorEnded == epc \in {"done", "raised", "closed"}
NoTaskLeft == \A i \in 1..N : task[i] \in {"none", "detail", "None", "raised"}

\* C31: the stream of enrich_fixtures and enrich_events_with_markets ends:
\* the generator eventually returns, is left by an exception or is closed;
\* when it returns every submitted fetch has completed and was taken; and
\* when the consumer stopped early the close returns only once no fetch
\* task is running or waiting in the pool.
C31_StreamEndsAndPoolDrained ==
    /\ [](provider \in Streaming =>
            /\ epc = "done" =>
                  \A i \in 1..N : task[i] # "none" => Finished(i) /\ i \in consumed
            /\ epc = "closed" => NoTaskLeft)
    /\ <>(provider \in Streaming /\ GeneratorEnded)

C31_Witness ==
    /\ provider \in Streaming
    /\ path = "pooled"
    /\ epc = "closed"
    /\ \E i \in 1..N : Finished(i) /\ i \notin consumed

\* ================= HTTP sessions in the pooled path
MaxTasks == 3

WorkerThreads == {"w1", "w2", "w3"}
Threads == {"main"} \cup WorkerThreads

\* the session the submitting thread holds: sportingbet `session = _session()`
\* in enrich_fixtures, superbet the `session` argument built by main()
CallerSession == 1

\* executor.submit(fetch_fixture_detail, None, ...) /
\* executor.submit(fetch_full_event, None, event_id): 0 stands for None
submit_session_caller(caller) == caller

submit_session(caller) == 0

\* _session() / _thread_session() on thread t: the thread's own session,
\* built and stored at the first call.  tls[t] = 0: no attribute yet.
thread_session(c, t) ==
    IF c.tls[t] # 0 THEN [c EXCEPT !.got = c.tls[t]]
    ELSE [c EXCEPT !.tls[t] = c.made + 1, !.made = @ + 1, !.got = c.made + 1,
                   !.built = @ \cup {<<t, c.made + 1>>}]

\* `session = session or _session()` / `request_session = session or
\* _thread_session()` at the head of a fetch running on thread t
fetch_session(c, passed, t) ==
    IF passed # 0 THEN [c EXCEPT !.got = passed] ELSE thread_session(c, t)

SessionInit ==
    /\ provider \in Streaming
    /\ CoreIdle
    /\ StoreIdle
    /\ clock = 0
    /\ NormIdle
    /\ arg \in 1..MaxTasks
    /\ ret = [passed |-> <<>>, started |-> 0, made |-> CallerSession,
              tls |-> [t \in Threads |->
                         IF t = "main" /\ provider = "sportingbet"
                         THEN CallerSession ELSE 0],
              built |-> {<<"main", CallerSession>>}, got |-> 0, uses |-> {}]

\* one turn of the submission loop on the calling thread
SessionSubmit ==
    /\ Len(ret.passed) < arg
    /\ ret' = [ret EXCEPT !.passed = Append(@, submit_session(CallerSession))]
    /\ UNCHANGED <<provider, coreVars, storeVars, clock, normVars, arg>>

\* a worker thread takes the oldest work item and runs the fetcher
SessionFetch(t) ==
    /\ ret.started < Len(ret.passed)
    /\ LET c == fetch_session(ret, ret.passed[ret.started + 1], t) IN
       ret' = [c EXCEPT !.started = @ + 1, !.uses = @ \cup {<<t, c.got>>}]
    /\ UNCHANGED <<provider, coreVars, storeVars, clock, normVars, arg>>

SessionNext ==
    \/ SessionSubmit
    \/ \E t \in WorkerThreads : SessionFetch(t)

SpecSession == SessionInit /\ [][SessionNext]_vars

\* C32: in the pooled path no session is used by two threads: a worker
\* fetches on a session that this worker built, and the session of the
\* submitting thread is used by no worker.
C32_SessionPerThread ==
    /\ \A u, v \in ret.uses : u[2] = v[2] => u[1] = v[1]
    /\ \A u \in ret.uses :
         /\ u[1] \in WorkerThreads
         /\ u \in ret.built
         /\ u[2] # CallerSession

C32_Witness ==
    /\ ret.started = 3
    /\ {u[1] : u \in ret.uses} = {"w1", "w2"}
    /\ Cardinality(ret.uses) = 2

\* ---- 'sources' over a sequence of merges
EntriesOf(d, p) ==
    {k \in DOMAIN GetList(d, "sources") : GetList(d, "sources")[k].provider = p}
LastEntryOf(d, p) ==
    GetList(d, "sources")[CHOOSE k \in EntriesOf(d, p) :
                             \A j \in EntriesOf(d, p) : j <= k]

\* C34: after a merge 'sources' holds at most one entry per provider name;
\* the entry of a provider the incoming document carries is the incoming
\* sub-document, and the entry of any other provider is the one that was
\* there before the merge: it is neither removed nor changed.
C34_OneEntryPerProviderLatestWins ==
    [][Merged =>
         \A p \in NormProviders :
            /\ Cardinality(EntriesOf(mdoc', p)) <= 1
            /\ IF EntriesOf(mlog'.incoming, p) # {}
               THEN /\ EntriesOf(mdoc', p) # {}
                    /\ LastEntryOf(mdoc', p) = LastEntryOf(mlog'.incoming, p)
               ELSE /\ EntriesOf(mdoc', p) # {} <=> EntriesOf(mdoc, p) # {}
                    /\ EntriesOf(mdoc, p) # {} =>
                          LastEntryOf(mdoc', p) = LastEntryOf(mdoc, p)]_vars

C34_Witness ==
    /\ mlog.n = 2
    /\ ProvidersOf(mlog.before) = {"A"}
    /\ ProvidersOf(mlog.incoming) = {"B"}
    /\ Len(mdoc["sources"]) = 2
    /\ LastEntryOf(mdoc, "A") = LastEntryOf(mlog.before, "A")
    /\ LastEntryOf(mdoc, "B") = LastEntryOf(mlog.incoming, "B")

\* ---- one call with two documents of one key
\* a call whose list is two documents of different providers and of the
\* same normalizedId
TwoProviderList(n) ==
    /\ Len(calls[n].documents) = 2
    /\ LET A == calls[n].documents[1]
           B == calls[n].documents[2] IN
       /\ GetStr(A, "normalizedId") # ""
       /\ GetStr(B, "normalizedId") = A["normalizedId"]
       /\ OneProvider(A) /\ OneProvider(B)
       /\ ProvidersOf(A) # ProvidersOf(B)

\* C36: after one call whose list holds two providers' documents of one
\* normalizedId, on a collection with at most one document of that
\* normalizedId, the document stored under it has both providers' entries,
\* as it has after two successive calls.
C36_OneCallBothProviders ==
    \A n \in 1..Len(calls) :
       (TwoProviderList(n)
          /\ Cardinality(StoredUnder(calls[n].before, calls[n].documents[1]["normalizedId"])) <= 1) =>
          LET A == calls[n].documents[1]
              B == calls[n].documents[2]
              now == StoredUnder(calls[n].after, A["normalizedId"]) IN
          /\ ~calls[n].raised
          /\ Cardinality(now) = 1
          /\ \A d \in now : ProvidersOf(A) \cup ProvidersOf(B) \subseteq ProvidersOf(d)

\* ================= two invocations of upsert_normalized at the same time
Invocations == {1, 2}

\* the document each invocation submits: one of provider A, one of B, both
\* of normalizedId "X" and both with a source entry
RaceDocsOf(p) == {d \in IncomingDocsOf(p) : ProvidersOf(d) = {p}}

StoredX ==
    [_id |-> 1, normalizedId |-> "X", eventId |-> "e0", sources |-> <<>>,
     createdAt |-> 1, updatedAt |-> 1]

RaceInit ==
    /\ provider = "none"
    /\ CoreIdle
    /\ StoreIdle
    /\ clock = 1
    /\ norm_coll \in {{}, {StoredX}}
    /\ calls = <<>>
    /\ mdoc = EmptyDoc
    /\ mlog = <<>>
    /\ arg \in {<<a, b>> : a \in RaceDocsOf("A"), b \in RaceDocsOf("B")}
    /\ ret = [i \in Invocations |->
                [pc |-> "start", existing_map |-> <<>>, readAt |-> 0, wroteAt |-> 0]]

\* existing_map = _fetch_existing_map(collection, norm_ids)
RaceRead(i) ==
    /\ ret[i].pc = "start"
    /\ LET documents == <<arg[i]>>
           ids == {norm_ids(documents)[k] : k \in 1..Len(norm_ids(documents))} IN
       \E existing_map \in fetch_existing_map(norm_coll, ids) :
          ret' = [ret EXCEPT ![i] = [pc |-> "read", existing_map |-> existing_map,
                                     readAt |-> clock + 1, wroteAt |-> 0]]
    /\ clock' = clock + 1
    /\ UNCHANGED <<provider, coreVars, storeVars, normVars, arg>>

\* the loop that merges, then collection.bulk_write(operations, ordered=False)
RaceWrite(i) ==
    /\ ret[i].pc = "read"
    /\ LET now == clock + 1
           ops == upsert_operations(ret[i].existing_map, <<arg[i]>>, now) IN
       \E order \in FullOrders(Len(ops)) :
          \E st \in bulk_write_norm(norm_coll, ops, order) :
             /\ norm_coll' = st.coll
             /\ ret' = [ret EXCEPT ![i].pc = IF st.failed THEN "raised" ELSE "done",
                                    ![i].wroteAt = now]
             /\ clock' = now
    /\ UNCHANGED <<provider, coreVars, storeVars, calls, mdoc, mlog, arg>>

RaceNext == \E i \in Invocations : RaceRead(i) \/ RaceWrite(i)

SpecRace == RaceInit /\ [][RaceNext]_vars

BothDone == \A i \in Invocations : ret[i].pc = "done"
Serialized == ret[1].wroteAt < ret[2].readAt \/ ret[2].wroteAt < ret[1].readAt
LastWriter == IF ret[1].wroteAt > ret[2].wroteAt THEN 1 ELSE 2

\* C33: two invocations that carry two providers' documents of one
\* normalizedId: when one ran after the other the stored document has both
\* providers' entries; when both read the stored state before either wrote,
\* it has only the entry of the invocation that wrote last.
C33_LostUpdateUnlessSerialized ==
    BothDone =>
       /\ Cardinality(StoredUnder(norm_coll, "X")) = 1
       /\ \A d \in StoredUnder(norm_coll, "X") :
            IF Serialized
            THEN ProvidersOf(d) = NormProviders
            ELSE ProvidersOf(d) = ProvidersOf(arg[LastWriter])

C33_Witness ==
    /\ BothDone
    /\ ~Serialized
    /\ ret[1].readAt < ret[2].wroteAt
    /\ ret[2].readAt < ret[1].wroteAt
    /\ \E d \in norm_coll : ProvidersOf(d) = {"A"}

\* ================= the sequential path as a function of the fetch outcomes
\* outs[i]: what the fetch of listing i comes back with ("none": no fetch).
\* The loop yields the listings in order and is left by the first exception
\* of a fetcher; "raw" is attached to the listings whose fetch gave a detail.
SequentialStop(outs) ==
    LET raising == {i \in 1..N : HasId(i) /\ outs[i] = "raised"} IN
    IF raising = {} THEN N + 1
    ELSE CHOOSE i \in raising : \A j \in raising : i <= j

SequentialYielded(outs) == [k \in 1..(SequentialStop(outs) - 1) |-> k]

SequentialRaw(outs) ==
    {i \in 1..(SequentialStop(outs) - 1) : HasId(i) /\ outs[i] = "detail"}

\* C35: the pooled path gives what the sequential path gives for the same
\* listings and the same fetch outcomes, up to order: the same records as
\* many times each, with "raw" on the same ones.
C35_PooledEqualsSequential ==
    (provider \in Streaming /\ path = "pooled" /\ epc = "done") =>
       /\ \A i \in 1..N :
            Occurrences(yielded, i) = Occurrences(SequentialYielded(task), i)
       /\ raw = SequentialRaw(task)

\* the function above is what the sequential steps of the model compute
SequentialPathAgrees ==
    (provider \in Streaming /\ path = "sequential" /\ epc \in {"done", "raised"}) =>
       /\ yielded = SequentialYielded(task)
       /\ raw = SequentialRaw(task)

====
